---------------------------- MODULE Spec2Model ----------------------------
(***************************************************************************)
(* A model of run_python.py, the start-up script of the Python server.    *)
(*                                                                         *)
(* The script is one sequential piece of module-level code.  Its state is  *)
(* the module's __name__, the process's working directory, sys.path, the   *)
(* binding of the name CONFIG, the values produced by the four attribute   *)
(* reads of lines 16 and 17, what was written to standard output, the      *)
(* calls made to uvicorn.run, the exception raised (if any) and the        *)
(* position of control.                                                    *)
(*                                                                         *)
(* python_app.config and uvicorn are external collaborators: what the      *)
(* import of line 11 does, what each read of CONFIG.HOST and               *)
(* CONFIG.SERVER_PORT returns and how uvicorn.run ends are chosen          *)
(* nondeterministically among the outcomes Python allows.                  *)
(***************************************************************************)
EXTENDS Integers, Sequences, FiniteSets, TLC

VARIABLES
    name,         \* __name__ of the module while its body runs
    cwd,          \* what os.getcwd() returns
    sysPath,      \* sys.path
    pathAtStart,  \* sys.path as it was before the module body ran
    CONFIG,       \* binding of the name CONFIG: "unbound" or "bound"
    fmtHost,      \* CONFIG.HOST as read for the f-string of line 16
    fmtPort,      \* CONFIG.SERVER_PORT as read for the f-string of line 16
    argHost,      \* CONFIG.HOST as read for the host= argument of line 17
    argPort,      \* CONFIG.SERVER_PORT as read for the port= argument of line 17
    stdout,       \* the lines printed so far
    calls,        \* the calls made to uvicorn.run, in order
    exc,          \* <<>>, or <<e>> with e the exception raised in the module body
    pc            \* position of control

vars == <<name, cwd, sysPath, pathAtStart, CONFIG, fmtHost, fmtPort,
          argHost, argPort, stdout, calls, exc, pc>>

---------------------------------------------------------------------------
\* Inputs

\* Longest sys.path the interpreter starts with.
MaxPathLen == 2

\* Names the module body can run under: executed directly, or imported.
ModuleNames == {"__main__", "run_python"}

\* Working directories the script can be started from.
Dirs == {"/srv/AIClient-2-API", "/home/user"}

\* Entries sys.path can hold before the script runs.
PathEntries == {"/usr/lib/python3", "/srv/AIClient-2-API"}

\* The sys.path values the interpreter can start with.
InitialPaths == UNION {[1..n -> PathEntries] : n \in 0..MaxPathLen}

\* Values CONFIG.HOST can return.
Hosts == {"127.0.0.1", "::1"}

\* Values CONFIG.SERVER_PORT can return.
Ports == {3000, 8000}

\* Exceptions "from python_app.config import CONFIG" can raise.
ConfigImportErrors ==
    { [type |-> "ModuleNotFoundError", msg |-> "No module named 'python_app'"],
      [type |-> "ImportError",
       msg  |-> "cannot import name 'CONFIG' from 'python_app.config'"],
      [type |-> "SyntaxError", msg |-> "invalid syntax (config.py, line 1)"] }

\* Exceptions uvicorn.run can raise.
ServerErrors ==
    { [type |-> "ModuleNotFoundError", msg |-> "No module named 'python_app.main'"],
      [type |-> "OSError", msg |-> "[Errno 98] Address already in use"] }

\* The AttributeError of a read of CONFIG.attr when CONFIG has no such attribute.
AttributeError(attr) ==
    [type |-> "AttributeError",
     msg  |-> "'Config' object has no attribute '" \o attr \o "'"]

---------------------------------------------------------------------------
\* Pure helpers

\* isinstance(e, ImportError): ImportError and its subclass ModuleNotFoundError.
IsImportError(e) == e.type \in {"ImportError", "ModuleNotFoundError"}

\* str(e) of an exception built from one message argument.
Str(e) == e.msg

\* The f-string of line 16.
StatusLine(h, p) == "Starting Python Server on " \o h \o ":" \o ToString(p)

\* The f-string of line 20.
ImportDiagnostic ==
    "Error: Could not import python_app. Make sure you are running this script from the AIClient-2-API directory."

\* UvicornArgs with live reload left off.
UvicornArgs_NoReload(h, p) ==
    [app |-> "python_app.main:app", host |-> h, port |-> p, reload |-> FALSE]

\* The arguments of the uvicorn.run call of line 17.
UvicornArgs(h, p) ==
    [app |-> "python_app.main:app", host |-> h, port |-> p, reload |-> TRUE]

---------------------------------------------------------------------------
\* The state when control reaches line 5: the imports of lines 1 to 3 are done
\* and nothing was imported from python_app, printed or started yet.
Init ==
    /\ name \in ModuleNames
    /\ cwd \in Dirs
    /\ sysPath \in InitialPaths
    /\ pathAtStart = sysPath
    /\ CONFIG = "unbound"
    /\ fmtHost = <<>>
    /\ fmtPort = <<>>
    /\ argHost = <<>>
    /\ argPort = <<>>
    /\ stdout = <<>>
    /\ calls = <<>>
    /\ exc = <<>>
    /\ pc = "guard"

\* MainGuard without the test of __name__: the body runs on import too.
MainGuard_Unguarded ==
    /\ pc = "guard"
    /\ pc' = "append"
    /\ UNCHANGED <<name, cwd, sysPath, pathAtStart, CONFIG, fmtHost, fmtPort,
                   argHost, argPort, stdout, calls, exc>>

\* Line 5: if __name__ == "__main__".  When the test fails the module body is over.
MainGuard ==
    /\ pc = "guard"
    /\ pc' = IF name = "__main__" THEN "append" ELSE "end"
    /\ UNCHANGED <<name, cwd, sysPath, pathAtStart, CONFIG, fmtHost, fmtPort,
                   argHost, argPort, stdout, calls, exc>>

\* AppendCwd as sys.path.insert(0, os.getcwd()).
AppendCwd_InsertFront ==
    /\ pc = "append"
    /\ sysPath' = <<cwd>> \o sysPath
    /\ pc' = "import"
    /\ UNCHANGED <<name, cwd, pathAtStart, CONFIG, fmtHost, fmtPort,
                   argHost, argPort, stdout, calls, exc>>

\* Line 8: sys.path.append(os.getcwd()).
AppendCwd ==
    /\ pc = "append"
    /\ sysPath' = Append(sysPath, cwd)
    /\ pc' = "import"
    /\ UNCHANGED <<name, cwd, pathAtStart, CONFIG, fmtHost, fmtPort,
                   argHost, argPort, stdout, calls, exc>>

\* ImportConfig followed directly by line 17: the status line is not printed.
ImportConfig_NoStatusLine ==
    /\ pc = "import"
    /\ \/ /\ CONFIG' = "bound"
          /\ pc' = "arg_host"
          /\ UNCHANGED exc
       \/ \E e \in ConfigImportErrors :
             /\ exc' = <<e>>
             /\ pc' = "except"
             /\ UNCHANGED CONFIG
    /\ UNCHANGED <<name, cwd, sysPath, pathAtStart, fmtHost, fmtPort,
                   argHost, argPort, stdout, calls>>

\* Line 11: from python_app.config import CONFIG.  Either the name is bound or
\* the statement raises.
ImportConfig ==
    /\ pc = "import"
    /\ \/ /\ CONFIG' = "bound"
          /\ pc' = "fmt_host"
          /\ UNCHANGED exc
       \/ \E e \in ConfigImportErrors :
             /\ exc' = <<e>>
             /\ pc' = "except"
             /\ UNCHANGED CONFIG
    /\ UNCHANGED <<name, cwd, sysPath, pathAtStart, fmtHost, fmtPort,
                   argHost, argPort, stdout, calls>>

\* Line 16, {CONFIG.HOST}: the first read of CONFIG.HOST.
ReadHostForStatus ==
    /\ pc = "fmt_host"
    /\ \/ \E h \in Hosts :
             /\ fmtHost' = <<h>>
             /\ pc' = "fmt_port"
             /\ UNCHANGED exc
       \/ /\ exc' = <<AttributeError("HOST")>>
          /\ pc' = "except"
          /\ UNCHANGED fmtHost
    /\ UNCHANGED <<name, cwd, sysPath, pathAtStart, CONFIG, fmtPort,
                   argHost, argPort, stdout, calls>>

\* Line 16, {CONFIG.SERVER_PORT}: the first read of CONFIG.SERVER_PORT.
ReadPortForStatus ==
    /\ pc = "fmt_port"
    /\ \/ \E p \in Ports :
             /\ fmtPort' = <<p>>
             /\ pc' = "print_status"
             /\ UNCHANGED exc
       \/ /\ exc' = <<AttributeError("SERVER_PORT")>>
          /\ pc' = "except"
          /\ UNCHANGED fmtPort
    /\ UNCHANGED <<name, cwd, sysPath, pathAtStart, CONFIG, fmtHost,
                   argHost, argPort, stdout, calls>>

\* Line 16: print(f"Starting Python Server on ...").
PrintStatus ==
    /\ pc = "print_status"
    /\ stdout' = Append(stdout, StatusLine(fmtHost[1], fmtPort[1]))
    /\ pc' = "arg_host"
    /\ UNCHANGED <<name, cwd, sysPath, pathAtStart, CONFIG, fmtHost, fmtPort,
                   argHost, argPort, calls, exc>>

\* Line 17, host=CONFIG.HOST: the second read of CONFIG.HOST.
ReadHostForServer ==
    /\ pc = "arg_host"
    /\ \/ \E h \in Hosts :
             /\ argHost' = <<h>>
             /\ pc' = "arg_port"
             /\ UNCHANGED exc
       \/ /\ exc' = <<AttributeError("HOST")>>
          /\ pc' = "except"
          /\ UNCHANGED argHost
    /\ UNCHANGED <<name, cwd, sysPath, pathAtStart, CONFIG, fmtHost, fmtPort,
                   argPort, stdout, calls>>

\* Line 17, port=CONFIG.SERVER_PORT: the second read of CONFIG.SERVER_PORT.
ReadPortForServer ==
    /\ pc = "arg_port"
    /\ \/ \E p \in Ports :
             /\ argPort' = <<p>>
             /\ pc' = "call"
             /\ UNCHANGED exc
       \/ /\ exc' = <<AttributeError("SERVER_PORT")>>
          /\ pc' = "except"
          /\ UNCHANGED argPort
    /\ UNCHANGED <<name, cwd, sysPath, pathAtStart, CONFIG, fmtHost, fmtPort,
                   argHost, stdout, calls>>

\* CallUvicornRun with the port overridden by a fixed one (see the comment of
\* lines 13 and 14).
CallUvicornRun_PortOverridden ==
    /\ pc = "call"
    /\ calls' = Append(calls, UvicornArgs(argHost[1], 8000))
    /\ pc' = "serving"
    /\ UNCHANGED <<name, cwd, sysPath, pathAtStart, CONFIG, fmtHost, fmtPort,
                   argHost, argPort, stdout, exc>>

\* Line 17: control enters uvicorn.run with the evaluated arguments.
CallUvicornRun ==
    /\ pc = "call"
    /\ calls' = Append(calls, UvicornArgs(argHost[1], argPort[1]))
    /\ pc' = "serving"
    /\ UNCHANGED <<name, cwd, sysPath, pathAtStart, CONFIG, fmtHost, fmtPort,
                   argHost, argPort, stdout, exc>>

\* UvicornRunEnds with the call placed after the try statement: what it raises
\* meets no handler.
UvicornRunEnds_OutsideTry ==
    /\ pc = "serving"
    /\ \/ /\ pc' = "end"
          /\ UNCHANGED exc
       \/ \E e \in ServerErrors :
             /\ exc' = <<e>>
             /\ pc' = "unhandled"
    /\ UNCHANGED <<name, cwd, sysPath, pathAtStart, CONFIG, fmtHost, fmtPort,
                   argHost, argPort, stdout, calls>>

\* Line 17: uvicorn.run returns (the server was shut down) or raises.
UvicornRunEnds ==
    /\ pc = "serving"
    /\ \/ /\ pc' = "end"
          /\ UNCHANGED exc
       \/ \E e \in ServerErrors :
             /\ exc' = <<e>>
             /\ pc' = "except"
    /\ UNCHANGED <<name, cwd, sysPath, pathAtStart, CONFIG, fmtHost, fmtPort,
                   argHost, argPort, stdout, calls>>

\* ExceptImportError as "except ModuleNotFoundError as e".
ExceptImportError_OnlyModuleNotFound ==
    /\ pc = "except"
    /\ pc' = IF exc[1].type = "ModuleNotFoundError" THEN "diag1" ELSE "unhandled"
    /\ UNCHANGED <<name, cwd, sysPath, pathAtStart, CONFIG, fmtHost, fmtPort,
                   argHost, argPort, stdout, calls, exc>>

\* ExceptImportError as "except Exception as e".
ExceptImportError_CatchAll ==
    /\ pc = "except"
    /\ pc' = "diag1"
    /\ UNCHANGED <<name, cwd, sysPath, pathAtStart, CONFIG, fmtHost, fmtPort,
                   argHost, argPort, stdout, calls, exc>>

\* Line 19: except ImportError as e.  An exception of another type leaves the
\* try statement, and with it the module body, unhandled.
ExceptImportError ==
    /\ pc = "except"
    /\ pc' = IF IsImportError(exc[1]) THEN "diag1" ELSE "unhandled"
    /\ UNCHANGED <<name, cwd, sysPath, pathAtStart, CONFIG, fmtHost, fmtPort,
                   argHost, argPort, stdout, calls, exc>>

\* Line 20: print of the fixed message.
PrintDiagnostic ==
    /\ pc = "diag1"
    /\ stdout' = Append(stdout, ImportDiagnostic)
    /\ pc' = "diag2"
    /\ UNCHANGED <<name, cwd, sysPath, pathAtStart, CONFIG, fmtHost, fmtPort,
                   argHost, argPort, calls, exc>>

\* PrintError followed by a start of the server on default values.
PrintError_ThenDefaultServer ==
    /\ pc = "diag2"
    /\ stdout' = Append(stdout, Str(exc[1]))
    /\ calls' = Append(calls, UvicornArgs("0.0.0.0", 8000))
    /\ pc' = "serving"
    /\ UNCHANGED <<name, cwd, sysPath, pathAtStart, CONFIG, fmtHost, fmtPort,
                   argHost, argPort, exc>>

\* Line 21: print(e); the handler and the module body end.
PrintError ==
    /\ pc = "diag2"
    /\ stdout' = Append(stdout, Str(exc[1]))
    /\ pc' = "end"
    /\ UNCHANGED <<name, cwd, sysPath, pathAtStart, CONFIG, fmtHost, fmtPort,
                   argHost, argPort, calls, exc>>

Next ==
    \/ MainGuard
    \/ AppendCwd
    \/ ImportConfig
    \/ ReadHostForStatus
    \/ ReadPortForStatus
    \/ PrintStatus
    \/ ReadHostForServer
    \/ ReadPortForServer
    \/ CallUvicornRun
    \/ UvicornRunEnds
    \/ ExceptImportError
    \/ PrintDiagnostic
    \/ PrintError

Spec == Init /\ [][Next]_vars

---------------------------------------------------------------------------
\* Vocabulary of the properties

\* The script was executed directly.
Direct == name = "__main__"

\* The status lines line 16 can print.
StatusLines == {StatusLine(h, p) : h \in Hosts, p \in Ports}

\* The positions in stdout that hold a status line.
StatusPositions == {i \in 1..Len(stdout) : stdout[i] \in StatusLines}

\* The lines of stdout.
Printed == {stdout[i] : i \in 1..Len(stdout)}

\* The import of line 11 raised an ImportError.
ConfigImportFailed ==
    /\ CONFIG = "unbound"
    /\ exc # <<>>
    /\ IsImportError(exc[1])

\* The uvicorn.run call of line 17 raised an ImportError.
ServerImportFailed ==
    /\ calls # <<>>
    /\ exc # <<>>
    /\ IsImportError(exc[1])

\* An exception other than an ImportError was raised in the try block.
OtherFailure ==
    /\ exc # <<>>
    /\ ~IsImportError(exc[1])

---------------------------------------------------------------------------
\* C1: every call of uvicorn.run is made with the host and the port that the
\* reads of CONFIG.HOST and CONFIG.SERVER_PORT of line 17 returned, unchanged;
\* and once control is inside uvicorn.run exactly that call has been made.
C1_HostPortPassedUnchanged ==
    /\ \A i \in 1..Len(calls) :
          /\ argHost # <<>> /\ calls[i].host = argHost[1]
          /\ argPort # <<>> /\ calls[i].port = argPort[1]
    /\ pc = "serving" => Len(calls) = 1

C1_Witness ==
    /\ Direct
    /\ pc = "serving"
    /\ calls = <<UvicornArgs("::1", 3000)>>

\* C2: when the import of python_app.config raises an ImportError, the script
\* prints the fixed message and then str(e), these two lines and in this
\* order, the handler always runs on to the end of the script, and the error
\* never leaves the script unhandled.
C2_ImportFailureReported ==
    ConfigImportFailed =>
        /\ pc \in {"except", "diag1", "diag2", "end"}
        /\ pc \in {"except", "diag1"} => stdout = <<>>
        /\ pc = "diag2" => stdout = <<ImportDiagnostic>>
        /\ pc = "end" => stdout = <<ImportDiagnostic, Str(exc[1])>>
        /\ pc # "end" => ENABLED Next

C2_Witness ==
    /\ ConfigImportFailed
    /\ pc = "end"
    /\ exc[1].type = "ImportError"
    /\ Len(stdout) = 2

\* C3: when the module is imported rather than executed, sys.path is as it
\* was, CONFIG is not imported, nothing is printed, uvicorn.run is not called
\* and the module body ends right after the test of line 5.
C3_ImportedDoesNothing ==
    ~Direct =>
        /\ sysPath = pathAtStart
        /\ CONFIG = "unbound"
        /\ stdout = <<>>
        /\ calls = <<>>
        /\ exc = <<>>
        /\ pc \in {"guard", "end"}

C3_Witness ==
    /\ ~Direct
    /\ pc = "end"
    /\ pathAtStart # <<>>

\* C4: every call of uvicorn.run names the application "python_app.main:app"
\* and has reload = TRUE, whatever CONFIG returned.
C4_FixedAppAndReload ==
    \A i \in 1..Len(calls) :
        /\ calls[i].app = "python_app.main:app"
        /\ calls[i].reload = TRUE

C4_Witness ==
    /\ Len(calls) = 1
    /\ calls[1].host = "127.0.0.1"
    /\ calls[1].port = 8000

\* C5: the four steps happen in order.  The import is attempted only after the
\* working directory was appended to sys.path, the status line is printed only
\* after CONFIG was imported, uvicorn.run is called only after the status line
\* was printed, and the status line and the call each happen at most once.
C5_StepsInOrder ==
    /\ (Direct /\ pc \notin {"guard", "append"}) => sysPath = Append(pathAtStart, cwd)
    /\ (CONFIG = "bound" \/ exc # <<>>) => sysPath = Append(pathAtStart, cwd)
    /\ StatusPositions # {} => CONFIG = "bound"
    /\ calls # <<>> => StatusPositions # {}
    /\ Cardinality(StatusPositions) <= 1
    /\ Len(calls) <= 1

C5_Witness ==
    /\ pc = "end"
    /\ exc = <<>>
    /\ Len(calls) = 1
    /\ Cardinality(StatusPositions) = 1

\* C6: the host and the port of the printed status line are those passed to
\* uvicorn.run.
C6_StatusLineMatchesServer ==
    \A i \in 1..Len(calls) :
        StatusLine(calls[i].host, calls[i].port) \in Printed

\* C7: only an ImportError is recovered from.  The handler's lines run only for
\* an ImportError; any other exception raised in the try block reaches no
\* handler line, prints neither diagnostic line, and leaves the script
\* unhandled; and nothing but such an exception leaves the script unhandled.
C7_OnlyImportErrorRecovered ==
    /\ pc \in {"diag1", "diag2"} => (exc # <<>> /\ IsImportError(exc[1]))
    /\ pc = "unhandled" => OtherFailure
    /\ OtherFailure =>
          /\ pc \in {"except", "unhandled"}
          /\ ImportDiagnostic \notin Printed
          /\ Str(exc[1]) \notin Printed
          /\ pc = "except" => ENABLED Next

C7_Witness ==
    /\ pc = "unhandled"
    /\ exc[1].type = "AttributeError"
    /\ CONFIG = "bound"

\* C8: when the import of python_app.config raises an ImportError, no
\* attribute of CONFIG is read, no status line is printed, uvicorn.run is not
\* called, and only the two diagnostic lines are printed; a call of
\* uvicorn.run and an unbound CONFIG never occur together.
C8_NoServerAfterImportFailure ==
    /\ ConfigImportFailed =>
          /\ fmtHost = <<>> /\ fmtPort = <<>>
          /\ argHost = <<>> /\ argPort = <<>>
          /\ StatusPositions = {}
          /\ calls = <<>>
          /\ Printed \subseteq {ImportDiagnostic, Str(exc[1])}
    /\ ~(calls # <<>> /\ CONFIG = "unbound")

C8_Witness ==
    /\ ConfigImportFailed
    /\ pc = "end"
    /\ exc[1].type = "ModuleNotFoundError"
    /\ Printed = {ImportDiagnostic, Str(exc[1])}

\* C9: an ImportError raised by uvicorn.run is handled by the same handler.
\* The two diagnostic lines follow the status line, and the script ends
\* without the error leaving it.
C9_ServerImportErrorHandled ==
    ServerImportFailed =>
        /\ pc \in {"except", "diag1", "diag2", "end"}
        /\ pc \in {"except", "diag1"} =>
              stdout = <<StatusLine(fmtHost[1], fmtPort[1])>>
        /\ pc = "diag2" =>
              stdout = <<StatusLine(fmtHost[1], fmtPort[1]), ImportDiagnostic>>
        /\ pc = "end" =>
              stdout = <<StatusLine(fmtHost[1], fmtPort[1]), ImportDiagnostic,
                         Str(exc[1])>>
        /\ pc # "end" => ENABLED Next

C9_Witness ==
    /\ ServerImportFailed
    /\ pc = "end"
    /\ Len(calls) = 1
    /\ ImportDiagnostic \in Printed

\* C10: in a direct execution sys.path is what it was until line 8 runs, and
\* from then on, whether the import succeeds or fails, it is what it was with
\* the working directory added as the last entry.
C10_PathAppendedOnce ==
    Direct =>
        /\ pc \in {"guard", "append"} => sysPath = pathAtStart
        /\ pc \notin {"guard", "append"} => sysPath = Append(pathAtStart, cwd)

C10_Witness ==
    /\ Direct
    /\ ConfigImportFailed
    /\ pc = "end"
    /\ Len(pathAtStart) = 2
    /\ pathAtStart[1] # cwd
    /\ sysPath = Append(pathAtStart, cwd)

===========================================================================
